---- MODULE Spec2Model ----
(***************************************************************************)
(* PackageInstallCommand (src/lib/source/mdapiPackage.ts, lines 259-508):  *)
(* the install orchestration of one command object.  `this` holds the      *)
(* fields the constructor creates; `inv` holds the running invocation of   *)
(* execute or poll: its flags, its locals, its position (pc) and a record  *)
(* of the collaborator calls it has made.  Every await of the source is a  *)
(* suspension point, so every action runs from one await to the next.      *)
(*                                                                         *)
(* MdapiPackage (lines 1-227 of the same file): `mdapi` holds one manifest *)
(* object, Package.types with its members arrays, and the outcome of the   *)
(* last call made on it.                                                   *)
(***************************************************************************)
EXTENDS Integers, Sequences, FiniteSets, TLC

VARIABLES this, inv, mdapi

vars == <<this, inv, mdapi>>

(***************************************************************************)
(* Bounds of the model.                                                    *)
(***************************************************************************)
MaxWait == 1
MaxPollRetries == 2
MaxErrors == 2
MaxCalls == 3

(***************************************************************************)
(* Program constants.                                                      *)
(***************************************************************************)
DEFAULT_POLL_INTERVAL_MILLIS == 5000
REPLICATION_POLLING_INTERVAL_MILLIS == 10000
DEFAULT_MAX_RETRIES == 0
RETRY_MINUTES_IN_MILLIS == 60000
DEFAULT_PUBLISH_WAIT_MIN == 0
MIN_API_VERSION == 36

Nil == "null"
Undefined == "undefined"

SECURITY_TYPE_MAP(k) ==
  CASE k = "AllUsers" -> "full"
    [] k = "AdminsOnly" -> "none"
    [] OTHER -> Undefined

UPGRADE_TYPE_MAP(k) ==
  CASE k = "Delete" -> "delete-only"
    [] k = "DeprecateOnly" -> "deprecate-only"
    [] k = "Mixed" -> "mixed-mode"
    [] OTHER -> Undefined

APEX_COMPILE_MAP(k) ==
  CASE k = "all" -> "all"
    [] k = "package" -> "package"
    [] OTHER -> Undefined

(***************************************************************************)
(* MdapiPackage (src/lib/source/mdapiPackage.ts, lines 1-227): the         *)
(* manifest under construction.  A string is a sequence of one-character   *)
(* strings and words, so that trim, split and replace are computed; where  *)
(* an argument may be null, null is <<>> and the string s is <<s>>.  A     *)
(* members array is a cell of `arrays` and an element holds the index of   *)
(* its cell, because elements can share one array.                         *)
(***************************************************************************)
Space == " "
Slash == "/"
Backslash == "\\"

\* path.sep: "/" on posix, "\\" on win32.
PathSeps == {Slash, Backslash}

folderMetadataTypes ==
  << <<"ReportFolder">>, <<"DashboardFolder">>, <<"DocumentFolder">>, <<"EmailFolder">> >>
folderChildMetadataTypes ==
  << <<"Report">>, <<"Dashboard">>, <<"Document">>, <<"EmailTemplate">> >>

Range(s) == {s[i] : i \in DOMAIN s}

Min(S) == CHOOSE x \in S : \A y \in S : x <= y
Max(S) == CHOOSE x \in S : \A y \in S : x >= y

\* zipObject(propsArray, valuesArray): a later value of a property wins.
zipObject(propsArray, valuesArray) ==
  [prop \in Range(propsArray) |->
     valuesArray[Max({i \in DOMAIN propsArray : propsArray[i] = prop})]]

\* String.prototype.trim.
RECURSIVE trimStart(_)
trimStart(s) == IF s # <<>> /\ Head(s) = Space THEN trimStart(Tail(s)) ELSE s

RECURSIVE trimEnd(_)
trimEnd(s) ==
  IF s # <<>> /\ s[Len(s)] = Space THEN trimEnd(SubSeq(s, 1, Len(s) - 1)) ELSE s

trim(s) == trimEnd(trimStart(s))

\* s.split(sep)[0]
firstOfSplit(s, sep) ==
  LET hits == {i \in DOMAIN s : s[i] = sep}
  IN IF hits = {} THEN s ELSE SubSeq(s, 1, Min(hits) - 1)

\* s.replace(/\\/g, '/')
replaceBackslashes(s) ==
  IF s = <<>> THEN <<>>
  ELSE [i \in 1..Len(s) |-> IF s[i] = Backslash THEN Slash ELSE s[i]]

\* The UTF-16 code unit of a character of a member name.
charCode(c) ==
  CASE c = Space -> 32
    [] c = Slash -> 47
    [] c = Backslash -> 92
    [] c = "a" -> 97
    [] c = "b" -> 98

\* The order Array.prototype.sort puts strings in.
RECURSIVE before(_, _)
before(s, t) ==
  IF t = <<>> THEN FALSE
  ELSE IF s = <<>> THEN TRUE
  ELSE IF Head(s) # Head(t) THEN charCode(Head(s)) < charCode(Head(t))
  ELSE before(Tail(s), Tail(t))

RECURSIVE sort(_)
sort(array) ==
  IF array = <<>> THEN <<>>
  ELSE LET m == Min({i \in DOMAIN array : \A j \in DOMAIN array : ~before(array[j], array[i])})
       IN <<array[m]>> \o sort(SubSeq(array, 1, m - 1) \o SubSeq(array, m + 1, Len(array)))

\* The arguments of addMember and getPackage.
FullNames ==
  { <<>>, << <<Space>> >>, << <<"a">> >>, << <<Space, "b">> >>,
    << <<"a", Slash, "b">> >>, << <<Slash, "a">> >>, << <<"a", Backslash, "b">> >> }

TypeNames ==
  { <<>>, << <<Space>> >>, << <<"ReportFolder">> >>, << <<Space, "ReportFolder">> >>,
    << <<"Report">> >>, << <<"ApexClass">> >>, << <<"SharingOwnerRule">> >>,
    << <<"AuraDefinitionBundle">> >>, << <<"Layout">> >> }

MetadataRegistries ==
  { <<>>,
    << [typeDefs |-> [SharingRules |->
          [childXmlNames |-> << <<"SharingOwnerRule">>, <<"SharingCriteriaRule">> >>]]] >> }

\* The constructor, lines 111-116: Package.types is empty.
MdapiPackage(sep) ==
  [sep |-> sep, types |-> <<>>, arrays |-> <<>>,
   calls |-> 0, called |-> "none", raised |-> "none", merged |-> FALSE]

\* The elements and arrays with the arrays numbered in the order in which the
\* elements first use them, and without the arrays no element uses.
normalize(types, arrays) ==
  IF types = <<>> THEN [types |-> <<>>, arrays |-> <<>>]
  ELSE LET refs == {types[i].members : i \in DOMAIN types}
           first(r) == Min({i \in DOMAIN types : types[i].members = r})
           rank(r) == Cardinality({q \in refs : first(q) <= first(r)})
       IN [types |-> [i \in 1..Len(types) |-> [types[i] EXCEPT !.members = rank(@)]],
           arrays |-> [n \in 1..Cardinality(refs) |->
                         arrays[CHOOSE r \in refs : rank(r) = n]]]

\* The last element of that name.
lastNamed(elements, name) ==
  elements[Max({i \in DOMAIN elements : elements[i].name = name})]

isNamed(elements, name) == \E i \in DOMAIN elements : elements[i].name = name

\* Object.keys(folderManifestElements): the folder types of the input in the
\* order of their first element.
RECURSIVE folderKeys(_, _)
folderKeys(elements, seen) ==
  IF elements = <<>> THEN <<>>
  ELSE LET name == Head(elements).name
       IN IF name \in Range(folderMetadataTypes) /\ name \notin seen
          THEN <<name>> \o folderKeys(Tail(elements), seen \cup {name})
          ELSE folderKeys(Tail(elements), seen)

\* Lines 46-59: the members of each folder type go to the element of its child
\* type, or to a new element.
RECURSIVE mergeFolders(_, _, _, _)
mergeFolders(keys, inputManifestElements, arrays, newFolderChildManifestElements) ==
  IF keys = <<>>
  THEN [arrays |-> arrays, newFolderChildManifestElements |-> newFolderChildManifestElements]
  ELSE LET folderManifestElement == lastNamed(inputManifestElements, Head(keys))
           folderChildMetadataType ==
             zipObject(folderMetadataTypes, folderChildMetadataTypes)[Head(keys)]
       IN IF isNamed(inputManifestElements, folderChildMetadataType)
          THEN LET folderChildManifestElement ==
                     lastNamed(inputManifestElements, folderChildMetadataType)
               IN mergeFolders(Tail(keys), inputManifestElements,
                               [arrays EXCEPT ![folderChildManifestElement.members] =
                                                 @ \o arrays[folderManifestElement.members]],
                               newFolderChildManifestElements)
          ELSE mergeFolders(Tail(keys), inputManifestElements, arrays,
                            Append(newFolderChildManifestElements,
                                   [name |-> folderChildMetadataType,
                                    members |-> folderManifestElement.members]))

\* Lines 67-80: what one input element contributes to the output.
RECURSIVE updateElements(_, _, _)
updateElements(elements, inputManifestElements, sharingEntities) ==
  IF elements = <<>> THEN <<>>
  ELSE LET element == Head(elements)
           out == IF element.name \in Range(folderMetadataTypes) THEN <<>>
                  ELSE IF element.name \in Range(folderChildMetadataTypes)
                       THEN <<lastNamed(inputManifestElements, element.name)>>
                  ELSE IF element.name \in Range(sharingEntities)
                       THEN [k \in 1..Len(sharingEntities) |->
                               [name |-> sharingEntities[k], members |-> element.members]]
                  ELSE <<element>>
       IN out \o updateElements(Tail(elements), inputManifestElements, sharingEntities)

_mergeFolderMembersUnderFolderChildAndUpdateSharingRules(inputManifestElements, arrays, metadataRegistry) ==
  LET merged == mergeFolders(folderKeys(inputManifestElements, {}), inputManifestElements,
                             arrays, <<>>)
      sharingEntities == IF metadataRegistry = <<>> THEN <<>>
                         ELSE metadataRegistry[1].typeDefs.SharingRules.childXmlNames
  IN [types |-> updateElements(inputManifestElements, inputManifestElements, sharingEntities)
                  \o merged.newFolderChildManifestElements,
      arrays |-> merged.arrays]

BundleTypes ==
  { <<"AuraDefinitionBundle">>, <<"LightningComponentBundle">>, <<"WaveTemplateBundle">> }

\* addMember(fullName, type), lines 158-212.  find returns the first element
\* whose name is the type as given; `!member` holds for a member that was
\* not found and for the empty string.
addMember(P, fullName, type) ==
  IF fullName = <<>> \/ Len(trim(fullName[1])) = 0
  THEN [P EXCEPT !.raised = "fullNameIsRequired"]
  ELSE IF type = <<>> \/ Len(trim(type[1])) = 0
  THEN [P EXCEPT !.raised = "metadataTypeIsRequired"]
  ELSE
    LET found == {i \in DOMAIN P.types : P.types[i].name = type[1]}
        types == IF found = {}
                 THEN Append(P.types, [name |-> trim(type[1]), members |-> Len(P.arrays) + 1])
                 ELSE P.types
        arrays == IF found = {} THEN Append(P.arrays, <<>>) ELSE P.arrays
        localType == IF found = {} THEN types[Len(types)] ELSE types[Min(found)]
        name0 == trim(fullName[1])
        name1 == IF type[1] \in BundleTypes THEN firstOfSplit(name0, P.sep) ELSE name0
        fullNameTrimmed == IF type[1] # <<"Layout">> THEN replaceBackslashes(name1) ELSE name1
        member == fullNameTrimmed # <<>> /\ fullNameTrimmed \in Range(arrays[localType.members])
    IN [P EXCEPT !.raised = "none", !.types = types,
                 !.arrays = IF member THEN arrays
                            ELSE [arrays EXCEPT ![localType.members] =
                                                  Append(@, fullNameTrimmed)]]

\* getPackage(metadataRegistry), lines 218-226.
getPackage(P, metadataRegistry) ==
  LET merged == _mergeFolderMembersUnderFolderChildAndUpdateSharingRules(
                  P.types, P.arrays, metadataRegistry)
      sorted == IF merged.arrays = <<>> THEN <<>>
                ELSE [r \in 1..Len(merged.arrays) |-> sort(merged.arrays[r])]
      result == normalize(merged.types, sorted)
  IN [P EXCEPT !.raised = "none", !.merged = TRUE,
               !.types = result.types, !.arrays = result.arrays]

(***************************************************************************)
(* Strings the code inspects character by character are sequences of       *)
(* one-character strings, so that toUpperCase is computed.                 *)
(***************************************************************************)
LowerChars == <<"y", "e", "s", "n", "o">>
UpperChars == <<"Y", "E", "S", "N", "O">>

UpperChar(c) ==
  IF \E i \in DOMAIN LowerChars : LowerChars[i] = c
  THEN UpperChars[CHOOSE i \in DOMAIN LowerChars : LowerChars[i] = c]
  ELSE c

toUpperCase(s) == [i \in DOMAIN s |-> UpperChar(s[i])]

YES == <<"Y", "E", "S">>
Y == <<"Y">>

\* What stdinPrompt can resolve to.
Answers ==
  { <<"y">>, <<"Y">>, <<"y", "e", "s">>, <<"y", "E", "s">>, YES,
    <<"n", "o">>, <<>>, <<"y", "e">> }

(***************************************************************************)
(* readInstallErrorsAsString: request.Errors may be missing, may lack its  *)
(* errors list, or carries a list of entries with a message.               *)
(***************************************************************************)
NoErrors == [present |-> FALSE, hasList |-> FALSE, errors |-> <<>>]

RECURSIVE appendErrors(_, _, _)
appendErrors(errorMessage, errorsArray, i) ==
  IF i < Len(errorsArray)
  THEN appendErrors(errorMessage \o "\n" \o ToString(i + 1) \o ") " \o errorsArray[i + 1],
                    errorsArray, i + 1)
  ELSE errorMessage

\* A variant that numbers the entries from 0.
RECURSIVE appendErrorsFromZero(_, _, _)
appendErrorsFromZero(errorMessage, errorsArray, i) ==
  IF i < Len(errorsArray)
  THEN appendErrorsFromZero(errorMessage \o "\n" \o ToString(i) \o ") " \o errorsArray[i + 1],
                            errorsArray, i + 1)
  ELSE errorMessage

readInstallErrorsFromZero(request) ==
  IF request.Errors.present /\ request.Errors.hasList /\ Len(request.Errors.errors) > 0
  THEN appendErrorsFromZero("Installation errors: ", request.Errors.errors, 0)
  ELSE "<empty>"

readInstallErrorsAsString(request) ==
  IF request.Errors.present /\ request.Errors.hasList /\ Len(request.Errors.errors) > 0
  THEN appendErrors("Installation errors: ", request.Errors.errors, 0)
  ELSE "<empty>"

(***************************************************************************)
(* Inputs: flags of the context, the org's API version, the fetched        *)
(* subscriber package version, the create response, retrieved resources.   *)
(***************************************************************************)
SUBSCRIBER_PACKAGE_VERSION_ID_PREFIX == "04t"

IdFlagValues == {Nil, "04tAAA"}
PackageFlagValues == {Nil, "04tBBB", "myalias", "noalias"}
\* An optional number is <<>> when the flag is not given, else <<n>>.
WaitValues == {<<>>} \cup {<<n>> : n \in 0..MaxWait}
PublishWaitValues == {<<>>, <<0>>, <<1>>}
\* The installation key is copied to the payload as it is; the flag is left out.
InstallationKeyValues == {Nil}
ApiVersions == {35, 36}

\* context.flags does not change during an invocation.  The model draws a
\* flag where execute first reads it: the identifier flags at line 364, the
\* flags copied to the command object at lines 394-403, and the options that
\* are read after the subscriber package version was fetched (lines 427-473).
IdentifierFlags == [id : IdFlagValues, package : PackageFlagValues]

FieldFlags ==
  [wait : WaitValues, installationkey : InstallationKeyValues, publishwait : PublishWaitValues]

Options ==
  [upgradetype : {"Delete", "DeprecateOnly", "Mixed"},
   apexcompile : {"all", "package"},
   securitytype : {"AllUsers", "AdminsOnly", "Other"},
   noprompt : BOOLEAN]

Unread == "<unread>"
NotCreated == "<no response>"

NoFlags ==
  [id |-> Unread, package |-> Unread, wait |-> <<>>, installationkey |-> Unread,
   publishwait |-> <<>>]

NoOptions ==
  [upgradetype |-> Unread, apexcompile |-> Unread, securitytype |-> Unread, noprompt |-> FALSE]

SubscriberPackageVersions ==
  [package2ContainerOptions : {"Unlocked", "Managed"},
   hasTrustedSites : {TRUE}, trustedSites : {<<>>, <<"https://a.example">>}]
  \cup
  [package2ContainerOptions : {"Unlocked", "Managed"},
   hasTrustedSites : {FALSE}, trustedSites : {<<>>}]

NoSpv == [package2ContainerOptions |-> "Managed", hasTrustedSites |-> FALSE, trustedSites |-> <<>>]

RequestIds == {"0HfA", "0HfB"}
CreateResults == [id : RequestIds \cup {Nil, Undefined}]

ErrorMessages == {"bad field", "missing perm"}

RECURSIVE SeqsUpTo(_, _)
SeqsUpTo(S, n) ==
  IF n = 0 THEN {<<>>}
  ELSE LET shorter == SeqsUpTo(S, n - 1)
       IN shorter \cup {Append(q, e) : q \in {r \in shorter : Len(r) = n - 1}, e \in S}

ErrorCollections ==
  {NoErrors, [present |-> TRUE, hasList |-> FALSE, errors |-> <<>>]}
    \cup {[present |-> TRUE, hasList |-> TRUE, errors |-> l] : l \in SeqsUpTo(ErrorMessages, MaxErrors)}

TerminalStatuses == {"SUCCESS", "ERROR"}
Statuses == {"SUCCESS", "ERROR", "IN_PROGRESS", "UNKNOWN"}

\* The version key the org holds for the request `id`.
versionKeyOf(id) == IF id = "0HfA" THEN "04tAAA" ELSE "04tBBB"

\* The resources toolingRetrieve can resolve to for the request `id`.
Requests(id) ==
  {[Id |-> id, Status |-> st, SubscriberPackageVersionKey |-> versionKeyOf(id),
    Errors |-> NoErrors] : st \in Statuses \ {"ERROR"}}
    \cup {[Id |-> id, Status |-> "ERROR", SubscriberPackageVersionKey |-> versionKeyOf(id),
            Errors |-> e] : e \in ErrorCollections}

NoRequest ==
  [Id |-> Nil, Status |-> "none", SubscriberPackageVersionKey |-> Nil, Errors |-> NoErrors]

\* context.org, and the org field of a command object that has not run.
ContextOrg == [set |-> TRUE, name |-> "myOrg"]
NoOrg == [set |-> FALSE, name |-> ""]

(***************************************************************************)
(* pkgUtils (lib/package/packageUtils): alias lookup and id validation.    *)
(***************************************************************************)
startsWith(s, prefix) == prefix = SUBSCRIBER_PACKAGE_VERSION_ID_PREFIX /\ s \in {"04tAAA", "04tBBB"}

getPackageIdFromAlias(alias) == IF alias = "myalias" THEN "04tBBB" ELSE alias

validateId(apvId) == apvId \in {"04tAAA", "04tBBB"}

(***************************************************************************)
(* The command object after construction, and the payload it owns.         *)
(***************************************************************************)
\* A payload is an object: a function from the names of the properties that
\* were assigned to their values.  {} has no property.
EmptyRequest == [p \in {} |-> Nil]

Has(obj, p) == p \in DOMAIN obj

Assign(obj, p, value) == [q \in DOMAIN obj \cup {p} |-> IF q = p THEN value ELSE obj[q]]

constructor ==
  [pollIntervalMillis |-> DEFAULT_POLL_INTERVAL_MILLIS,
   replicationPollIntervalMillis |-> REPLICATION_POLLING_INTERVAL_MILLIS,
   maxRetries |-> DEFAULT_MAX_RETRIES,
   allPackageVersionId |-> Nil,
   installationKey |-> Nil,
   publishwait |-> DEFAULT_PUBLISH_WAIT_MIN,
   packageInstallRequest |-> EmptyRequest,
   org |-> NoOrg]

\* What a call returned (value) or that it raised (threw).
NoReport == [threw |-> FALSE, value |-> "<not called>"]

NoGate == [gate |-> "none", stdin |-> FALSE, answer |-> <<>>, accepted |-> FALSE]

\* An invocation that has not started: no call made, nothing returned.
\* fetchCalls, createCalls and retrieveCalls count the remote queries issued,
\* returned those that have resolved; promptCalls counts the prompts
\* presented, answered those that have resolved.
\* lastRequest and terminalSeen record what toolingRetrieve resolved to, gate
\* the confirmation passed last, payload what toolingCreate was called with.
NoInv ==
  [pc |-> "idle", kind |-> "none", flags |-> NoFlags, options |-> NoOptions,
   apvId |-> Nil, apiVersion |-> 0, spv |-> NoSpv, createdId |-> NotCreated,
   id |-> Nil, retries |-> 0, budget |-> 0,
   result |-> NoRequest, failure |-> "none", message |-> "",
   publishWaitRetries |-> 0, payload |-> EmptyRequest, warnings |-> {},
   lastRequest |-> NoRequest, terminalSeen |-> FALSE, gate |-> NoGate,
   fetchCalls |-> 0, promptCalls |-> 0, createCalls |-> 0, retrieveCalls |-> 0,
   returned |-> 0, answered |-> 0,
   reported |-> NoRequest, report |-> NoReport]

Init == this = constructor /\ inv = NoInv /\ mdapi = MdapiPackage(Slash)

Throw(v, failure, message) == [v EXCEPT !.pc = "failed", !.failure = failure, !.message = message]

Ceil(a, b) == (a + b - 1) \div b

(***************************************************************************)
(* _prompt(noninteractive, message): the answer is 'YES' when              *)
(* noninteractive, else what stdinPrompt resolves to.                      *)
(***************************************************************************)
\* A variant that compares the answer as typed.
_promptCaseSensitive(noninteractive, stdinAnswer) ==
  LET answer == IF noninteractive THEN YES ELSE stdinAnswer
  IN answer = YES \/ answer = Y

_prompt(noninteractive, stdinAnswer) ==
  LET answer == IF noninteractive THEN YES ELSE stdinAnswer
  IN toUpperCase(answer) = YES \/ toUpperCase(answer) = Y


\* The record of the gate passed last: whether stdinPrompt was invoked, its
\* answer, the outcome.
Gate(name, noninteractive, stdinAnswer) ==
  [gate |-> name, stdin |-> ~noninteractive,
   answer |-> IF noninteractive THEN <<>> ELSE stdinAnswer,
   accepted |-> _prompt(noninteractive, stdinAnswer)]

(***************************************************************************)
(* poll(context, id, retries): issues one toolingRetrieve and suspends.    *)
(***************************************************************************)
poll(v, id, retries) ==
  [v EXCEPT !.pc = "awaitRetrieve", !.id = id, !.retries = retries,
            !.retrieveCalls = @ + 1]

\* A variant without the SUCCESS case: the resource is polled again.
pollThenNoSuccessCase(v, request) ==
  CASE request.Status = "ERROR" ->
         Throw(v, "installErrors", readInstallErrorsAsString(request))
    [] OTHER ->
         IF v.retries > 0
         THEN [v EXCEPT !.pc = "delay"]
         ELSE [v EXCEPT !.pc = "done", !.result = request]

\* A variant that raises when the retries are used up.
pollThenTimeoutRaises(v, request) ==
  CASE request.Status = "SUCCESS" -> [v EXCEPT !.pc = "done", !.result = request]
    [] request.Status = "ERROR" ->
         Throw(v, "installErrors", readInstallErrorsAsString(request))
    [] OTHER ->
         IF v.retries > 0
         THEN [v EXCEPT !.pc = "delay"]
         ELSE Throw(v, "timeout", "")

\* A variant that polls again while retries >= 0.
pollThenRetriesAtZero(v, request) ==
  CASE request.Status = "SUCCESS" -> [v EXCEPT !.pc = "done", !.result = request]
    [] request.Status = "ERROR" ->
         Throw(v, "installErrors", readInstallErrorsAsString(request))
    [] OTHER ->
         IF v.retries >= 0
         THEN [v EXCEPT !.pc = "delay"]
         ELSE [v EXCEPT !.pc = "done", !.result = request]

\* A variant that gives up with one retry left.
pollThenGivesUpEarly(v, request) ==
  CASE request.Status = "SUCCESS" -> [v EXCEPT !.pc = "done", !.result = request]
    [] request.Status = "ERROR" ->
         Throw(v, "installErrors", readInstallErrorsAsString(request))
    [] OTHER ->
         IF v.retries > 1
         THEN [v EXCEPT !.pc = "delay"]
         ELSE [v EXCEPT !.pc = "done", !.result = request]

\* A variant that polls again without the delay.
pollThenNoDelay(v, request) ==
  CASE request.Status = "SUCCESS" -> [v EXCEPT !.pc = "done", !.result = request]
    [] request.Status = "ERROR" ->
         Throw(v, "installErrors", readInstallErrorsAsString(request))
    [] OTHER ->
         IF v.retries > 0
         THEN poll(v, v.id, v.retries - 1)
         ELSE [v EXCEPT !.pc = "done", !.result = request]

\* The continuation of toolingRetrieve in poll (lines 331-350).
pollThen(v, request) ==
  CASE request.Status = "SUCCESS" -> [v EXCEPT !.pc = "done", !.result = request]
    [] request.Status = "ERROR" ->
         Throw(v, "installErrors", readInstallErrorsAsString(request))
    [] OTHER ->
         IF v.retries > 0
         THEN [v EXCEPT !.pc = "delay"]
         ELSE [v EXCEPT !.pc = "done", !.result = request]

(***************************************************************************)
(* execute, lines 452-478: construct the PackageInstallRequest on the      *)
(* command object and pass it to toolingCreate.                            *)
(***************************************************************************)
\* A variant that sets securityType only for a value the map knows.
constructRequestSecurityWhenMapped(req, t, flags, spv, enableExternalSites) ==
  LET r1 == Assign(req, "subscriberPackageVersionKey", t.allPackageVersionId)
      r2 == Assign(r1, "password", t.installationKey)
      r3 == IF flags.upgradetype # "Mixed" /\ spv.package2ContainerOptions = "Unlocked"
            THEN Assign(r2, "upgradeType", UPGRADE_TYPE_MAP(flags.upgradetype))
            ELSE r2
      r4 == IF flags.apexcompile # "all" /\ spv.package2ContainerOptions = "Unlocked"
            THEN Assign(r3, "apexCompileType", APEX_COMPILE_MAP(flags.apexcompile))
            ELSE r3
      r5 == IF SECURITY_TYPE_MAP(flags.securitytype) # Undefined
            THEN Assign(r4, "securityType", SECURITY_TYPE_MAP(flags.securitytype))
            ELSE r4
      r6 == Assign(r5, "nameConflictResolution", "Block")
      r7 == Assign(r6, "packageInstallSource", "U")
  IN Assign(r7, "enableRss", enableExternalSites)

constructRequest(req, t, flags, spv, enableExternalSites) ==
  LET r1 == Assign(req, "subscriberPackageVersionKey", t.allPackageVersionId)
      r2 == Assign(r1, "password", t.installationKey)
      r3 == IF flags.upgradetype # "Mixed" /\ spv.package2ContainerOptions = "Unlocked"
            THEN Assign(r2, "upgradeType", UPGRADE_TYPE_MAP(flags.upgradetype))
            ELSE r2
      r4 == IF flags.apexcompile # "all" /\ spv.package2ContainerOptions = "Unlocked"
            THEN Assign(r3, "apexCompileType", APEX_COMPILE_MAP(flags.apexcompile))
            ELSE r3
      r5 == Assign(r4, "securityType", SECURITY_TYPE_MAP(flags.securitytype))
      r6 == Assign(r5, "nameConflictResolution", "Block")
      r7 == Assign(r6, "packageInstallSource", "U")
  IN Assign(r7, "enableRss", enableExternalSites)

constructWarnings(flags, spv) ==
  (IF flags.upgradetype # "Mixed" /\ spv.package2ContainerOptions # "Unlocked"
   THEN {"install.warningUpgradeTypeOnlyForUnlocked"} ELSE {})
  \cup
  (IF flags.apexcompile # "all" /\ spv.package2ContainerOptions # "Unlocked"
   THEN {"install.warningApexCompileOnlyForUnlocked"} ELSE {})

toolingCreate(t, v, enableExternalSites) ==
  LET req == constructRequest(t.packageInstallRequest, t, v.options, v.spv, enableExternalSites)
  IN [this |-> [t EXCEPT !.packageInstallRequest = req],
      inv |-> [v EXCEPT !.pc = "awaitCreate", !.payload = req,
                        !.warnings = constructWarnings(v.options, v.spv),
                        !.createCalls = @ + 1]]

(***************************************************************************)
(* execute, lines 438-450: the external-sites gate.                        *)
(***************************************************************************)
needsRssPrompt(spv) == spv.hasTrustedSites /\ Len(spv.trustedSites) > 0

\* A variant that submits the request before it presents the prompt.
rssGateCreatesBeforePrompt(t, v) ==
  IF needsRssPrompt(v.spv)
  THEN IF v.options.noprompt
       THEN LET g == Gate("promptRss", TRUE, <<>>)
            IN toolingCreate(t, [v EXCEPT !.gate = g], g.accepted)
       ELSE LET r == toolingCreate(t, v, FALSE)
            IN [this |-> r.this,
                inv |-> [r.inv EXCEPT !.pc = "awaitPromptRss", !.promptCalls = @ + 1]]
  ELSE toolingCreate(t, v, FALSE)

rssGate(t, v) ==
  IF needsRssPrompt(v.spv)
  THEN IF v.options.noprompt
       THEN LET g == Gate("promptRss", TRUE, <<>>)
            IN toolingCreate(t, [v EXCEPT !.gate = g], g.accepted)
       ELSE [this |-> t, inv |-> [v EXCEPT !.pc = "awaitPromptRss", !.promptCalls = @ + 1]]
  ELSE toolingCreate(t, v, FALSE)

\* A variant that enables the external sites whatever the answer.
rssAnsweredAlwaysEnables(t, v, stdinAnswer) ==
  LET g == Gate("promptRss", v.options.noprompt, stdinAnswer)
  IN toolingCreate(t, [v EXCEPT !.gate = g], TRUE)

rssAnswered(t, v, stdinAnswer) ==
  LET g == Gate("promptRss", v.options.noprompt, stdinAnswer)
  IN toolingCreate(t, [v EXCEPT !.gate = g], g.accepted)

(***************************************************************************)
(* execute, lines 425-436: the upgrade-type gate.                          *)
(***************************************************************************)
needsUpgradePrompt(flags, spv) ==
  flags.upgradetype = "Delete" /\ spv.package2ContainerOptions = "Unlocked"

\* A variant that goes on after a denial.
upgradeDecidedIgnoresDenial(t, v, g) == rssGate(t, [v EXCEPT !.gate = g])

upgradeDecided(t, v, g) ==
  LET w == [v EXCEPT !.gate = g]
  IN IF ~g.accepted
     THEN [this |-> t, inv |-> Throw(w, "promptUpgradeTypeDeny", "")]
     ELSE rssGate(t, w)

upgradeGate(t, v) ==
  IF needsUpgradePrompt(v.options, v.spv)
  THEN IF v.options.noprompt
       THEN upgradeDecided(t, v, Gate("promptUpgradeType", TRUE, <<>>))
       ELSE [this |-> t, inv |-> [v EXCEPT !.pc = "awaitPromptUpgradeType", !.promptCalls = @ + 1]]
  ELSE rssGate(t, v)

(***************************************************************************)
(* execute, lines 358-423: identifier resolution, validation, the fields   *)
(* of the command object, and the subscriber package version query.        *)
(***************************************************************************)
\* A variant that accepts both flags together.
requiredFlagsNeitherOnly(flags) == flags.id = Nil /\ flags.package = Nil

requiredFlagsMissing(flags) ==
  (flags.id = Nil /\ flags.package = Nil) \/ (flags.id # Nil /\ flags.package # Nil)

resolveApvId(flags) ==
  IF flags.id # Nil THEN flags.id
  ELSE IF startsWith(flags.package, SUBSCRIBER_PACKAGE_VERSION_ID_PREFIX)
       THEN flags.package
       ELSE getPackageIdFromAlias(flags.package)

\* Lines 363-391.
identifierFailure(flags) ==
  IF requiredFlagsMissing(flags) THEN "errorRequiredFlags"
  ELSE IF ~validateId(resolveApvId(flags)) THEN "invalidIdOrPackage"
  ELSE "none"

\* A variant that divides by the replication poll interval.
maxRetriesForReplicationInterval(t, wait) ==
  IF wait = <<>> THEN t.maxRetries
  ELSE (RETRY_MINUTES_IN_MILLIS \div t.replicationPollIntervalMillis) * wait[1]

maxRetriesFor(t, wait) ==
  IF wait = <<>> THEN t.maxRetries
  ELSE (RETRY_MINUTES_IN_MILLIS \div t.pollIntervalMillis) * wait[1]

publishWaitRetriesFor(t) ==
  Ceil(t.publishwait * 60 * 1000, t.replicationPollIntervalMillis)

\* Lines 393-403.
setFields(t, apvId, flags) ==
  [t EXCEPT !.org = ContextOrg,
            !.allPackageVersionId = apvId,
            !.maxRetries = maxRetriesFor(t, flags.wait),
            !.installationKey = IF flags.installationkey = Nil THEN @ ELSE flags.installationkey,
            !.publishwait = IF flags.publishwait = <<>> THEN @ ELSE flags.publishwait[1]]

executeInvalid(t, idFlags) ==
  LET v == [NoInv EXCEPT !.kind = "execute", !.flags.id = idFlags.id,
                         !.flags.package = idFlags.package]
  IN [this |-> [t EXCEPT !.org = ContextOrg],
      inv |-> Throw(v, identifierFailure(idFlags),
                    IF requiredFlagsMissing(idFlags) THEN "" ELSE resolveApvId(idFlags))]

\* A variant that checks the API version after it has issued the query.
executeValidQueryFirst(t, idFlags, fieldFlags, apiVersion) ==
  LET flags == [id |-> idFlags.id, package |-> idFlags.package, wait |-> fieldFlags.wait,
                installationkey |-> fieldFlags.installationkey,
                publishwait |-> fieldFlags.publishwait]
      v == [NoInv EXCEPT !.kind = "execute", !.flags = flags, !.apiVersion = apiVersion,
                         !.apvId = resolveApvId(flags), !.fetchCalls = @ + 1]
      t1 == setFields(t, resolveApvId(flags), flags)
  IN IF apiVersion < MIN_API_VERSION
     THEN [this |-> t1,
           inv |-> Throw(v, "unsupportedApiVersion",
                         "This command is supported only on API versions 36.0 and higher")]
     ELSE [this |-> t1,
           inv |-> [v EXCEPT !.pc = "awaitFetch",
                             !.publishWaitRetries = publishWaitRetriesFor(t1)]]

executeValid(t, idFlags, fieldFlags, apiVersion) ==
  LET flags == [id |-> idFlags.id, package |-> idFlags.package, wait |-> fieldFlags.wait,
                installationkey |-> fieldFlags.installationkey,
                publishwait |-> fieldFlags.publishwait]
      v == [NoInv EXCEPT !.kind = "execute", !.flags = flags, !.apiVersion = apiVersion,
                         !.apvId = resolveApvId(flags)]
      t1 == setFields(t, resolveApvId(flags), flags)
  IN IF apiVersion < MIN_API_VERSION
     THEN [this |-> t1,
           inv |-> Throw(v, "unsupportedApiVersion",
                         "This command is supported only on API versions 36.0 and higher")]
     ELSE [this |-> t1,
           inv |-> [v EXCEPT !.pc = "awaitFetch",
                             !.publishWaitRetries = publishWaitRetriesFor(t1),
                             !.fetchCalls = @ + 1]]

\* A variant without the check of the returned id.
createThenNoIdCheck(t, v, result) ==
  poll([NoInv EXCEPT !.kind = "execute", !.createdId = result.id,
                     !.budget = t.maxRetries, !.payload = v.payload,
                     !.fetchCalls = v.fetchCalls, !.promptCalls = v.promptCalls,
                     !.createCalls = v.createCalls,
                     !.returned = v.returned, !.answered = v.answered],
       result.id, t.maxRetries)

\* The continuation of toolingCreate (lines 480-484).  execute returns what
\* poll returns: from here on the running frame is poll's.
createThen(t, v, result) ==
  IF result.id \in {Nil, Undefined}
  THEN Throw([v EXCEPT !.createdId = result.id], "createFailed",
             "Failed to create PackageInstallRequest for: " \o t.allPackageVersionId)
  ELSE poll([NoInv EXCEPT !.kind = "execute", !.createdId = result.id,
                          !.budget = t.maxRetries, !.payload = v.payload,
                          !.fetchCalls = v.fetchCalls, !.promptCalls = v.promptCalls,
                          !.createCalls = v.createCalls,
                          !.returned = v.returned, !.answered = v.answered],
            result.id, t.maxRetries)

(***************************************************************************)
(* getHumanSuccessMessage(result), lines 494-507.                          *)
(***************************************************************************)
\* messages.getMessage(label, args, bundle): the text of the label in the
\* bundle with the args filled in.
getMessage(label, args, bundle) ==
  bundle \o "." \o label \o "("
    \o (IF Len(args) > 0 THEN args[1] ELSE "")
    \o (IF Len(args) > 1 THEN ", " \o args[2] ELSE "")
    \o ")"

\* A variant without the TERMINATED case.
getHumanSuccessMessageNoTerminatedCase(t, result) ==
  IF result.Status = "SUCCESS"
  THEN [threw |-> FALSE,
        value |-> getMessage(result.Status, <<result.SubscriberPackageVersionKey>>,
                             "package_install_report")]
  ELSE IF ~t.org.set
       THEN [threw |-> TRUE, value |-> "TypeError"]
       ELSE [threw |-> FALSE,
             value |-> getMessage(result.Status, <<result.Id, t.org.name>>,
                                  "package_install_report")]

getHumanSuccessMessage(t, result) ==
  CASE result.Status = "SUCCESS" ->
         [threw |-> FALSE,
          value |-> getMessage(result.Status, <<result.SubscriberPackageVersionKey>>,
                               "package_install_report")]
    [] result.Status = "TERMINATED" -> [threw |-> FALSE, value |-> ""]
    [] OTHER ->
         IF ~t.org.set
         THEN [threw |-> TRUE, value |-> "TypeError"]
         ELSE [threw |-> FALSE,
               value |-> getMessage(result.Status, <<result.Id, t.org.name>>,
                                    "package_install_report")]

(***************************************************************************)
(* Actions: one per call of a public method and per continuation.          *)
(***************************************************************************)
\* execute(context), with the flags of lines 394-403 drawn from fieldFlagSet.
ExecuteOn(fieldFlagSet) ==
  /\ inv.pc = "idle"
  /\ \E idFlags \in IdentifierFlags :
       IF identifierFailure(idFlags) # "none"
       THEN LET r == executeInvalid(this, idFlags)
            IN this' = r.this /\ inv' = r.inv
       ELSE \E fieldFlags \in fieldFlagSet, apiVersion \in ApiVersions :
              LET r == executeValid(this, idFlags, fieldFlags, apiVersion)
              IN this' = r.this /\ inv' = r.inv
  /\ UNCHANGED mdapi

Execute == ExecuteOn(FieldFlags)

\* getSubscriberPackageVersionQuery has resolved.  The identifier flags,
\* publishwait and the API version are not read again, so the frame drops
\* them; it keeps wait and installationkey, which the command object carries
\* to the create call and to the start of poll.
SubscriberPackageVersionFetched ==
  /\ inv.pc = "awaitFetch"
  /\ \E spv \in SubscriberPackageVersions, options \in Options :
       LET r == upgradeGate(this, [inv EXCEPT !.spv = spv, !.options = options,
                                              !.flags = [NoFlags EXCEPT
                                                          !.wait = inv.flags.wait,
                                                          !.installationkey =
                                                             inv.flags.installationkey],
                                              !.apiVersion = 0,
                                              !.returned = @ + 1])
       IN this' = r.this /\ inv' = r.inv
  /\ UNCHANGED mdapi

PromptUpgradeTypeAnswered ==
  /\ inv.pc = "awaitPromptUpgradeType"
  /\ \E stdinAnswer \in Answers :
       LET r == upgradeDecided(this, [inv EXCEPT !.answered = @ + 1],
                               Gate("promptUpgradeType", inv.options.noprompt, stdinAnswer))
       IN this' = r.this /\ inv' = r.inv
  /\ UNCHANGED mdapi

PromptRssAnswered ==
  /\ inv.pc = "awaitPromptRss"
  /\ \E stdinAnswer \in Answers :
       LET r == rssAnswered(this, [inv EXCEPT !.answered = @ + 1], stdinAnswer)
       IN this' = r.this /\ inv' = r.inv
  /\ UNCHANGED mdapi

ToolingCreateReturned ==
  /\ inv.pc = "awaitCreate"
  /\ \E result \in CreateResults :
       inv' = createThen(this, [inv EXCEPT !.returned = @ + 1], result)
  /\ UNCHANGED <<this, mdapi>>

Poll ==
  /\ inv.pc = "idle"
  /\ \E id \in RequestIds, retries \in 0..MaxPollRetries :
       inv' = poll([NoInv EXCEPT !.kind = "poll", !.budget = retries], id, retries)
  /\ this' = [this EXCEPT !.org = ContextOrg]
  /\ UNCHANGED mdapi

ToolingRetrieveReturned ==
  /\ inv.pc = "awaitRetrieve"
  /\ \E request \in Requests(inv.id) :
       inv' = pollThen([inv EXCEPT !.returned = @ + 1,
                                   !.lastRequest = request,
                                   !.terminalSeen = @ \/ request.Status \in TerminalStatuses],
                       request)
  /\ UNCHANGED <<this, mdapi>>

DelayElapsed ==
  /\ inv.pc = "delay"
  /\ inv' = poll(inv, inv.id, inv.retries - 1)
  /\ UNCHANGED <<this, mdapi>>

\* The caller passes getHumanSuccessMessage the resource that execute or poll
\* returned, or that resource marked TERMINATED.
GetHumanSuccessMessage ==
  /\ inv.pc = "done"
  /\ inv.report = NoReport
  /\ \E result \in {inv.result, [inv.result EXCEPT !.Status = "TERMINATED"]} :
       inv' = [inv EXCEPT !.reported = result,
                          !.report = getHumanSuccessMessage(this, result)]
  /\ UNCHANGED <<this, mdapi>>

\* The promise of execute or poll has settled and the caller has its outcome;
\* the command object is free for the next call.
Settled ==
  /\ inv.pc \in {"done", "failed"}
  /\ inv' = NoInv
  /\ UNCHANGED <<this, mdapi>>

Next ==
  \/ Execute
  \/ SubscriberPackageVersionFetched
  \/ PromptUpgradeTypeAnswered
  \/ PromptRssAnswered
  \/ ToolingCreateReturned
  \/ Poll
  \/ ToolingRetrieveReturned
  \/ DelayElapsed
  \/ GetHumanSuccessMessage
  \/ Settled

Spec == Init /\ [][Next]_vars

\* The command object used for direct calls of poll only, where every
\* retrieve that was issued resolves and every delay that was started elapses.
PollNext ==
  \/ Poll
  \/ ToolingRetrieveReturned
  \/ DelayElapsed
  \/ GetHumanSuccessMessage
  \/ Settled

FairPollSpec ==
  /\ Init
  /\ [][PollNext]_vars
  /\ WF_vars(ToolingRetrieveReturned)
  /\ WF_vars(DelayElapsed)

(***************************************************************************)
(* The manifest object: calls of addMember and getPackage on one           *)
(* MdapiPackage, on either platform.                                       *)
(***************************************************************************)
AddMember ==
  /\ mdapi.calls < MaxCalls
  /\ \E fullName \in FullNames, type \in TypeNames :
       mdapi' = [addMember(mdapi, fullName, type) EXCEPT !.calls = @ + 1,
                                                         !.called = "addMember"]
  /\ UNCHANGED <<this, inv>>

GetPackage ==
  /\ mdapi.calls < MaxCalls
  /\ \E metadataRegistry \in MetadataRegistries :
       mdapi' = [getPackage(mdapi, metadataRegistry) EXCEPT !.calls = @ + 1,
                                                            !.called = "getPackage"]
  /\ UNCHANGED <<this, inv>>

MdapiInit ==
  /\ this = constructor
  /\ inv = NoInv
  /\ mdapi \in {MdapiPackage(sep) : sep \in PathSeps}

MdapiNext == AddMember \/ GetPackage

MdapiSpec == MdapiInit /\ [][MdapiNext]_vars

(***************************************************************************)
(* Properties of poll.                                                     *)
(***************************************************************************)

\* C1: once a retrieve has returned SUCCESS, poll has returned that resource;
\* once a retrieve has returned ERROR, poll has raised; and no retrieve is
\* issued after a terminal status (SUCCESS or ERROR) was observed.
C1_TerminalStatusEndsPoll ==
  /\ [](inv.terminalSeen =>
          /\ inv.pc \in {"done", "failed"}
          /\ (inv.lastRequest.Status = "SUCCESS" =>
                inv.pc = "done" /\ inv.result = inv.lastRequest)
          /\ (inv.lastRequest.Status = "ERROR" =>
                inv.pc = "failed" /\ inv.failure = "installErrors"))
  /\ [][inv.terminalSeen => inv'.retrieveCalls <= inv.retrieveCalls]_vars

\* A terminal status arrived while retries were left, after an earlier
\* non-terminal one.
C1_Witness ==
  /\ inv.terminalSeen
  /\ inv.retrieveCalls >= 2
  /\ inv.retries > 0
  /\ inv.lastRequest.Status = "SUCCESS"

\* C2: when every retrieve of a poll with budget n returned a non-terminal
\* status, poll does not raise, makes n + 1 retrieves and returns exactly the
\* resource of the last one.
C2_TimeoutReturnsLastResource ==
  (inv.retrieveCalls > 0 /\ ~inv.terminalSeen) =>
     /\ inv.pc # "failed"
     /\ inv.failure = "none"
     /\ inv.retrieveCalls <= inv.budget + 1
     /\ (inv.pc = "done" =>
           inv.result = inv.lastRequest /\ inv.retrieveCalls = inv.budget + 1)
     /\ (inv.retrieveCalls = inv.budget + 1 /\ inv.pc # "awaitRetrieve" => inv.pc = "done")

\* A poll with a positive budget that ran out of retries.
C2_Witness ==
  /\ inv.pc = "done"
  /\ ~inv.terminalSeen
  /\ inv.budget >= 1
  /\ inv.result.Status \notin TerminalStatuses
  /\ inv.result.Id = inv.id

RECURSIVE NumberedLines(_, _)
NumberedLines(entries, k) ==
  IF k = 0 THEN "Installation errors: "
  ELSE NumberedLines(entries, k - 1) \o "\n" \o ToString(k) \o ") " \o entries[k]

ExpectedErrorMessage(errors) ==
  IF ~errors.present \/ ~errors.hasList \/ errors.errors = <<>>
  THEN "<empty>"
  ELSE NumberedLines(errors.errors, Len(errors.errors))

\* C3: on status ERROR poll raises with the message "Installation errors: "
\* followed by newline, k, ") " and the k-th entry's message for k = 1..len,
\* or "<empty>" when the error collection is absent or empty.
C3_InstallErrorMessage ==
  inv.lastRequest.Status = "ERROR" =>
     /\ inv.pc = "failed"
     /\ inv.failure = "installErrors"
     /\ inv.message = ExpectedErrorMessage(inv.lastRequest.Errors)
     /\ (inv.lastRequest.Errors = [present |-> TRUE, hasList |-> TRUE,
                                   errors |-> <<"bad field", "missing perm">>]
           => inv.message = "Installation errors: \n1) bad field\n2) missing perm")

\* The two-entry example of the specification.
C3_Witness ==
  /\ inv.failure = "installErrors"
  /\ inv.lastRequest.Errors.errors = <<"bad field", "missing perm">>
  /\ inv.message = "Installation errors: \n1) bad field\n2) missing perm"

(***************************************************************************)
(* Properties of execute.                                                  *)
(***************************************************************************)
\* The answers that read "yes" or "y" in any mix of cases.
AffirmativeAnswers ==
  {<<"y">>, <<"Y">>}
    \cup {<<a, b, c>> : a \in {"y", "Y"}, b \in {"e", "E"}, c \in {"s", "S"}}

\* The frame is execute's and the options have been read.
OptionsRead == inv.kind = "execute" /\ inv.options.upgradetype # Unread

\* The upgrade-type confirmation was asked on stdin and answered with a denial.
DeleteDeclined ==
  /\ OptionsRead
  /\ inv.spv.package2ContainerOptions = "Unlocked"
  /\ inv.options.upgradetype = "Delete"
  /\ ~inv.options.noprompt
  /\ inv.gate.gate = "promptUpgradeType"
  /\ inv.gate.answer \notin AffirmativeAnswers

\* C4: container type "Unlocked", upgradetype Delete, confirmation declined:
\* execute has failed with the prompt-denied failure and has made no create
\* call and no retrieve.
C4_DeclinedDeleteAborts ==
  /\ (DeleteDeclined =>
        /\ inv.pc = "failed"
        /\ inv.failure = "promptUpgradeTypeDeny"
        /\ inv.createCalls = 0
        /\ inv.retrieveCalls = 0)
  /\ (inv.pc = "awaitPromptUpgradeType" => inv.createCalls = 0)

C4_Witness ==
  /\ DeleteDeclined
  /\ inv.gate.answer = <<"n", "o">>
  /\ inv.failure = "promptUpgradeTypeDeny"

\* C5: the payload passed to toolingCreate has upgradeType only if upgradetype
\* is not Mixed and the container type is "Unlocked", and apexCompileType only
\* if apexcompile is not all and the container type is "Unlocked"; a
\* non-default value that is left out is warned about.
C5_ConditionalFields ==
  (inv.pc = "awaitCreate") =>
     /\ (Has(inv.payload, "upgradeType") =>
           /\ inv.options.upgradetype # "Mixed"
           /\ inv.spv.package2ContainerOptions = "Unlocked")
     /\ (Has(inv.payload, "apexCompileType") =>
           /\ inv.options.apexcompile # "all"
           /\ inv.spv.package2ContainerOptions = "Unlocked")
     /\ (inv.options.upgradetype # "Mixed" /\ inv.spv.package2ContainerOptions # "Unlocked"
           => "install.warningUpgradeTypeOnlyForUnlocked" \in inv.warnings)
     /\ (inv.options.apexcompile # "all" /\ inv.spv.package2ContainerOptions # "Unlocked"
           => "install.warningApexCompileOnlyForUnlocked" \in inv.warnings)

\* The identifier flags have been read by the running execute.
IdentifierFlagsRead == inv.kind = "execute" /\ inv.flags.id # Unread

NoRemoteCall ==
  inv.fetchCalls = 0 /\ inv.createCalls = 0 /\ inv.retrieveCalls = 0

\* C6: with both identifier flags or neither, execute fails with the
\* required-flags failure and makes no remote call; with exactly one, it does
\* not fail with that failure.
C6_ExactlyOneIdentifierFlag ==
  /\ (IdentifierFlagsRead =>
        IF (inv.flags.id = Nil) = (inv.flags.package = Nil)
        THEN inv.pc = "failed" /\ inv.failure = "errorRequiredFlags" /\ NoRemoteCall
        ELSE inv.failure # "errorRequiredFlags")
  /\ (inv.failure = "errorRequiredFlags" => IdentifierFlagsRead)

C6_Witness ==
  /\ IdentifierFlagsRead
  /\ inv.flags.id # Nil
  /\ inv.flags.package # Nil
  /\ inv.failure = "errorRequiredFlags"

ValidationFailures == {"errorRequiredFlags", "invalidIdOrPackage", "unsupportedApiVersion"}

\* C7: an invocation that ended in a validation failure has made no version
\* fetch, no create, no retrieve and has shown no prompt; an API version below
\* 36 is such a failure.
C7_ValidationBeforeRemoteCalls ==
  /\ (inv.failure \in ValidationFailures =>
        inv.pc = "failed" /\ NoRemoteCall /\ inv.promptCalls = 0)
  /\ (IdentifierFlagsRead /\ inv.apiVersion # 0 /\ inv.apiVersion < 36 =>
        inv.failure \in ValidationFailures)

C7_Witness ==
  /\ inv.failure = "unsupportedApiVersion"
  /\ inv.apiVersion = 35
  /\ inv.flags.package = "myalias"

\* C8: a create response without id makes execute fail with the creation
\* failure that names the version key, without any retrieve; with an id, poll
\* retrieves exactly that id.
C8_CreateWithoutIdFails ==
  /\ (inv.createdId \in {Nil, Undefined} =>
        /\ inv.pc = "failed"
        /\ inv.failure = "createFailed"
        /\ inv.retrieveCalls = 0
        /\ inv.message = "Failed to create PackageInstallRequest for: "
                           \o inv.payload["subscriberPackageVersionKey"])
  /\ (inv.createdId \in RequestIds =>
        /\ inv.retrieveCalls >= 1
        /\ inv.id = inv.createdId
        /\ inv.failure # "createFailed"
        /\ inv.lastRequest.Id \in {Nil, inv.createdId})
  /\ (inv.kind = "execute" /\ inv.retrieveCalls > 0 => inv.createdId \in RequestIds)

C8_Witness ==
  /\ inv.createdId = Undefined
  /\ inv.failure = "createFailed"
  /\ inv.message = "Failed to create PackageInstallRequest for: 04tBBB"

SitesDeclared == inv.spv.hasTrustedSites /\ inv.spv.trustedSites # <<>>

\* C9: the enableRss flag of the submitted payload is true iff the version
\* declares a trusted site and the confirmation was affirmative; a denial of
\* that confirmation leaves the flag false and the create call is made.
C9_ExternalSitesFlag ==
  /\ (inv.pc = "awaitCreate" =>
        /\ Has(inv.payload, "enableRss")
        /\ inv.payload["enableRss"] =
             (SitesDeclared /\ (inv.options.noprompt \/ inv.gate.answer \in AffirmativeAnswers))
        /\ (SitesDeclared => inv.gate.gate = "promptRss"))
  /\ (OptionsRead /\ inv.gate.gate = "promptRss" /\ inv.createdId = NotCreated =>
        inv.pc = "awaitCreate" /\ inv.createCalls = 1 /\ inv.failure = "none")

C9_Witness ==
  /\ inv.pc = "awaitCreate"
  /\ inv.gate.gate = "promptRss"
  /\ inv.gate.answer = <<"n", "o">>
  /\ inv.payload["enableRss"] = FALSE
  /\ inv.createCalls = 1

\* The number of confirmations an execute in this state has asked on stdin.
PromptsDue ==
  (IF inv.options.upgradetype = "Delete" /\ inv.spv.package2ContainerOptions = "Unlocked"
   THEN 1 ELSE 0)
  + (IF SitesDeclared /\ (inv.gate.gate = "promptRss" \/ inv.pc = "awaitPromptRss")
     THEN 1 ELSE 0)

\* C10: with noprompt the gate is affirmative and stdinPrompt is never
\* invoked; otherwise stdinPrompt is invoked once per gate and the gate is
\* affirmative iff the answer reads "YES" or "Y" in any mix of cases.
C10_ConfirmationGate ==
  OptionsRead =>
    IF inv.options.noprompt
    THEN /\ inv.promptCalls = 0
         /\ inv.pc \notin {"awaitPromptUpgradeType", "awaitPromptRss"}
         /\ inv.failure # "promptUpgradeTypeDeny"
         /\ (inv.gate.gate # "none" => inv.gate.accepted /\ ~inv.gate.stdin)
    ELSE /\ inv.promptCalls = PromptsDue
         /\ (inv.gate.gate # "none" =>
               /\ inv.gate.stdin
               /\ inv.gate.accepted = (inv.gate.answer \in AffirmativeAnswers))

\* A mixed-case "yEs" typed at the second prompt was taken as affirmative.
C10_Witness ==
  /\ OptionsRead
  /\ ~inv.options.noprompt
  /\ inv.gate.answer = <<"y", "E", "s">>
  /\ inv.gate.accepted
  /\ inv.promptCalls = 2

(***************************************************************************)
(* Retry budgets.                                                          *)
(***************************************************************************)
\* The least number of intervals of i milliseconds that cover w minutes.
IntervalsCovering(w, i) ==
  CHOOSE n \in 0..(w * 60) :
    /\ n * i >= w * 60000
    /\ (n = 0 \/ (n - 1) * i < w * 60000)

OwnPayload ==
  [p \in {"subscriberPackageVersionKey", "password", "securityType",
          "nameConflictResolution", "packageInstallSource", "enableRss"}
         \cup (IF inv.options.upgradetype # "Mixed"
                  /\ inv.spv.package2ContainerOptions = "Unlocked"
               THEN {"upgradeType"} ELSE {})
         \cup (IF inv.options.apexcompile # "all"
                  /\ inv.spv.package2ContainerOptions = "Unlocked"
               THEN {"apexCompileType"} ELSE {}) |->
     CASE p = "subscriberPackageVersionKey" -> inv.apvId
       [] p = "password" -> inv.flags.installationkey
       [] p = "securityType" -> SECURITY_TYPE_MAP(inv.options.securitytype)
       [] p = "nameConflictResolution" -> "Block"
       [] p = "packageInstallSource" -> "U"
       [] p = "enableRss" -> inv.payload["enableRss"]
       [] p = "upgradeType" -> UPGRADE_TYPE_MAP(inv.options.upgradetype)
       [] p = "apexCompileType" -> APEX_COMPILE_MAP(inv.options.apexcompile)]

\* C12: on a command object that is used again, the payload passed to
\* toolingCreate and the budget passed to poll are determined by the flags and
\* the fetched version of the running execute alone.
C12_InvocationsIndependent ==
  /\ [](inv.pc = "awaitCreate" => inv.payload = OwnPayload)
  /\ [][inv.pc = "awaitCreate" /\ inv'.pc = "awaitRetrieve" =>
          inv'.budget = IF inv.flags.wait = <<>> THEN DEFAULT_MAX_RETRIES
                        ELSE IntervalsCovering(inv.flags.wait[1], DEFAULT_POLL_INTERVAL_MILLIS)]_vars

(***************************************************************************)
(* The fields every payload carries.                                       *)
(***************************************************************************)
\* C13: every payload passed to toolingCreate has securityType "full" for
\* AllUsers, "none" for AdminsOnly and undefined for any other value, and has
\* nameConflictResolution "Block" and packageInstallSource "U".
C13_SecurityTypeAndFixedFields ==
  (inv.pc = "awaitCreate") =>
     /\ Has(inv.payload, "securityType")
     /\ (inv.options.securitytype = "AllUsers" => inv.payload["securityType"] = "full")
     /\ (inv.options.securitytype = "AdminsOnly" => inv.payload["securityType"] = "none")
     /\ (inv.options.securitytype \notin {"AllUsers", "AdminsOnly"} =>
           inv.payload["securityType"] = Undefined)
     /\ Has(inv.payload, "nameConflictResolution")
     /\ inv.payload["nameConflictResolution"] = "Block"
     /\ Has(inv.payload, "packageInstallSource")
     /\ inv.payload["packageInstallSource"] = "U"

\* A payload for a securitytype outside the map has been submitted.
C13_Witness ==
  /\ inv.pc = "awaitCreate"
  /\ inv.createCalls = 1
  /\ inv.options.securitytype = "Other"
  /\ inv.payload["securityType"] = Undefined

(***************************************************************************)
(* The report of the outcome.                                              *)
(***************************************************************************)
\* C14: getHumanSuccessMessage returns the SUCCESS text with the version key
\* of the resource for SUCCESS, the empty string for TERMINATED, and for every
\* other status the text of that status with the request id and the name of
\* the target org; the call changes nothing but what the caller holds.
C14_HumanSuccessMessage ==
  /\ [](inv.report # NoReport =>
          /\ ~inv.report.threw
          /\ (inv.reported.Status = "SUCCESS" =>
                inv.report.value =
                  "package_install_report.SUCCESS("
                     \o inv.reported.SubscriberPackageVersionKey \o ")")
          /\ (inv.reported.Status = "TERMINATED" => inv.report.value = "")
          /\ (inv.reported.Status \notin {"SUCCESS", "TERMINATED"} =>
                inv.report.value =
                  "package_install_report." \o inv.reported.Status \o "("
                     \o inv.reported.Id \o ", " \o this.org.name \o ")"))
  /\ [][inv.report = NoReport /\ inv'.report # NoReport =>
          /\ this' = this
          /\ inv' = [inv EXCEPT !.reported = inv'.reported, !.report = inv'.report]]_vars

\* The resource of a poll that ran out of retries has been reported.
C14_Witness ==
  /\ inv.report # NoReport
  /\ inv.reported = inv.result
  /\ inv.reported.Status = "IN_PROGRESS"
  /\ inv.retries = 0
  /\ inv.budget > 0
  /\ this.org.name = "myOrg"

C16_PollTerminates ==
  /\ [](inv.retrieveCalls <= inv.budget + 1)
  /\ [](/\ inv.pc \in {"done", "failed"}
        /\ inv.retrieveCalls > 0
        /\ inv.retrieveCalls < inv.budget + 1
        => inv.terminalSeen /\ inv.lastRequest.Status \in TerminalStatuses)
  /\ (inv.pc = "awaitRetrieve" ~> inv.pc \in {"done", "failed"})

\* A poll with budget 2 has ended after its third retrieve without a terminal
\* status.
C16_Witness ==
  /\ inv.kind = "poll"
  /\ inv.pc = "done"
  /\ inv.budget = 2
  /\ inv.retrieveCalls = 3
  /\ ~inv.terminalSeen

(***************************************************************************)
(* The order of the steps of execute.                                      *)
(***************************************************************************)
\* The place of a suspension point in the order of execute.
Stage(pc) ==
  CASE pc = "idle" -> 0
    [] pc = "awaitFetch" -> 1
    [] pc = "awaitPromptUpgradeType" -> 2
    [] pc = "awaitPromptRss" -> 3
    [] pc = "awaitCreate" -> 4
    [] pc \in {"awaitRetrieve", "delay"} -> 5
    [] OTHER -> 6

\* C17: an execute goes through validation, the version fetch, the gates, the
\* payload and the create, and the poll in this order; it calls create at most
\* once, after the fetch has resolved and every prompt presented has been
\* answered, and it retrieves only a request whose id create has returned.
C17_StepOrder ==
  /\ [](inv.kind = "execute" =>
          /\ inv.fetchCalls <= 1
          /\ inv.createCalls <= 1
          /\ inv.promptCalls <= 2
          /\ (inv.fetchCalls = 1 /\ inv.pc = "awaitFetch" =>
                identifierFailure(inv.flags) = "none")
          /\ (inv.promptCalls > 0 => inv.fetchCalls = 1 /\ inv.returned >= 1)
          /\ (inv.createCalls = 1 =>
                /\ inv.fetchCalls = 1
                /\ inv.returned >= 1
                /\ inv.answered = inv.promptCalls
                /\ inv.payload # EmptyRequest)
          /\ (inv.retrieveCalls > 0 =>
                /\ inv.createCalls = 1
                /\ inv.returned >= 2
                /\ inv.createdId \in RequestIds
                /\ inv.id = inv.createdId))
  /\ [][inv.kind = "execute" /\ inv'.kind = "execute" =>
          Stage(inv'.pc) >= Stage(inv.pc)]_vars

\* An execute that presented both prompts has issued its first retrieve.
C17_Witness ==
  /\ inv.kind = "execute"
  /\ inv.pc = "awaitRetrieve"
  /\ inv.fetchCalls = 1
  /\ inv.promptCalls = 2
  /\ inv.answered = 2
  /\ inv.createCalls = 1
  /\ inv.retrieveCalls = 1

\* The remote queries of the running invocation that have not resolved.
Outstanding ==
  inv.fetchCalls + inv.createCalls + inv.retrieveCalls - inv.returned

\* C18: at most one remote query of an invocation is outstanding at any time,
\* and poll issues a further retrieve only when the previous one has resolved
\* and the delay that followed it has elapsed.
C18_SingleFlight ==
  /\ [](Outstanding \in {0, 1})
  /\ [](Outstanding = 1 <=> inv.pc \in {"awaitFetch", "awaitCreate", "awaitRetrieve"})
  /\ [][inv.retrieveCalls >= 1 /\ inv'.retrieveCalls > inv.retrieveCalls =>
          /\ inv.pc = "delay"
          /\ Outstanding = 0
          /\ inv'.retrieveCalls = inv.retrieveCalls + 1]_vars

\* The second retrieve of an execute is outstanding; fetch, create and the
\* first retrieve have resolved.
C18_Witness ==
  /\ inv.kind = "execute"
  /\ inv.pc = "awaitRetrieve"
  /\ inv.retrieveCalls = 2
  /\ inv.returned = 3

(***************************************************************************)
(* The manifest.                                                           *)
(***************************************************************************)
\* The members of the i-th element of the manifest P.
MembersOf(P, i) == Range(P.arrays[P.types[i].members])

\* null, or a string of nothing but white space.
NullOrBlank(arg) == arg = <<>> \/ \A k \in DOMAIN arg[1] : arg[1][k] = Space

\* C19: after calls of addMember only, no two elements of Package.types have
\* the same name and no members array holds a member twice; addMember with a
\* null or blank fullName or type raises and leaves Package.types as it was.
C19_NoDuplicates ==
  /\ ~mdapi.merged =>
       /\ \A i, j \in DOMAIN mdapi.types :
            i # j => mdapi.types[i].name # mdapi.types[j].name
       /\ \A r \in DOMAIN mdapi.arrays :
            \A k, l \in DOMAIN mdapi.arrays[r] :
              k # l => mdapi.arrays[r][k] # mdapi.arrays[r][l]
  /\ \A fullName \in FullNames, type \in TypeNames :
       NullOrBlank(fullName) \/ NullOrBlank(type) =>
         /\ addMember(mdapi, fullName, type).raised # "none"
         /\ addMember(mdapi, fullName, type).types = mdapi.types
         /\ addMember(mdapi, fullName, type).arrays = mdapi.arrays

\* The names of the sharing rule types.
SharingRuleTypes == { <<"SharingOwnerRule">>, <<"SharingCriteriaRule">> }

\* C20: getPackage leaves no element named after a folder type, lists every
\* member of a folder type under the element of its child type, and keeps
\* name and set of members of every element that is neither of a folder, a
\* folder child nor a sharing rule type.
C20_FolderMembersMove ==
  [][mdapi'.calls = mdapi.calls + 1 /\ mdapi'.called = "getPackage" =>
       /\ \A j \in DOMAIN mdapi'.types :
            mdapi'.types[j].name \notin Range(folderMetadataTypes)
       /\ \A i \in DOMAIN mdapi.types, k \in DOMAIN folderMetadataTypes :
            mdapi.types[i].name = folderMetadataTypes[k] =>
              \A member \in MembersOf(mdapi, i) :
                \E j \in DOMAIN mdapi'.types :
                  /\ mdapi'.types[j].name = folderChildMetadataTypes[k]
                  /\ member \in MembersOf(mdapi', j)
       /\ \A i \in DOMAIN mdapi.types :
            mdapi.types[i].name \notin Range(folderMetadataTypes)
                                          \cup Range(folderChildMetadataTypes)
                                          \cup SharingRuleTypes =>
              \E j \in DOMAIN mdapi'.types :
                /\ mdapi'.types[j].name = mdapi.types[i].name
                /\ MembersOf(mdapi', j) = MembersOf(mdapi, i)]_vars

====
